---- MODULE Spec2Model ----
(***************************************************************************)
(* Model of video2audio.py: the engine probe (check_ffmpeg), the           *)
(* conversion unit (convert_video_to_audio), the batch orchestrator        *)
(* (batch_convert) and the command line driver (main).                     *)
(*                                                                         *)
(* Paths, file names and command-line words are sequences of tokens; "/"   *)
(* and "." are tokens of their own, so that os.path.join, basename,        *)
(* dirname, splitext, str.upper and the glob match are computed, not       *)
(* assumed.  The token "/" stands for os.sep.                              *)
(***************************************************************************)
EXTENDS Integers, Sequences, FiniteSets, TLC

VARIABLES platform, entry, args, inputKind, listing, subdir, outDir,
          pc, video_files, idx, success_count, failure_count, result,
          success, engine_probe, ffmpeg_ok, parsed, exit_code, raised,
          scanned, mkdirs, calls, invocations

vars == <<platform, entry, args, inputKind, listing, subdir, outDir,
          pc, video_files, idx, success_count, failure_count, result,
          success, engine_probe, ffmpeg_ok, parsed, exit_code, raised,
          scanned, mkdirs, calls, invocations>>

(* ------------------------------ bounds --------------------------------- *)

\* largest number of entries of the input directory
MaxFiles == 3

(* --------------------------- the environment --------------------------- *)

\* os.path flavour: posixpath.normcase is the identity, ntpath.normcase folds case
Platforms == {"posix", "nt"}

\* names an input directory may hold, in the order a directory listing
\* yields those present
ScanOrder ==
    << <<"a", ".", "MP4">>, <<"b", ".", "mp4">>, <<"c", ".", "Mp4">>,
       <<"b", ".", "avi">>, <<"a", ".", "mp4">>, <<"notes", ".", "txt">> >>

\* what one run of the ffmpeg binary can come to: exit status 0, a non-zero
\* exit status (CalledProcessError), no such binary (FileNotFoundError),
\* binary not executable (PermissionError)
EngineOutcomes == {"ok", "nonzero", "notfound", "noexec"}

\* the engine cannot decode a directory: exit status 0 needs a regular file
EngineOutcomesFor(kind) ==
    IF kind = "file" THEN EngineOutcomes ELSE EngineOutcomes \ {"ok"}

\* state of the directory that is to receive the output
OutDirStates == {"exists", "creatable", "uncreatable"}

\* argparse choices of --format and --quality
CliFormats == {"mp3", "wav"}
Qualities == {"192k", "320k"}
\* audio_format values a direct caller of the functions can pass
ApiFormats == CliFormats \cup {"flac"}

(* ------------------------------ strings -------------------------------- *)

\* str.lower() of a token
Lower(t) ==
    CASE t = "MP4" -> "mp4" [] t = "Mp4" -> "mp4" [] t = "AVI" -> "avi"
      [] t = "MOV" -> "mov" [] t = "MKV" -> "mkv" [] t = "WMV" -> "wmv"
      [] t = "FLV" -> "flv" [] t = "WEBM" -> "webm" [] t = "MP3" -> "mp3"
      [] OTHER -> t

\* str.upper() of a token
Upper(t) ==
    CASE t = "mp4" -> "MP4" [] t = "Mp4" -> "MP4" [] t = "avi" -> "AVI"
      [] t = "mov" -> "MOV" [] t = "mkv" -> "MKV" [] t = "wmv" -> "WMV"
      [] t = "flv" -> "FLV" [] t = "webm" -> "WEBM" [] t = "mp3" -> "MP3"
      [] OTHER -> t

UpperSeq(s) == [i \in 1..Len(s) |-> Upper(s[i])]

\* os.path.normcase, per token
NormCase(t) == IF platform = "nt" THEN Lower(t) ELSE t

NormCaseSeq(s) == [i \in 1..Len(s) |-> NormCase(s[i])]

(* ------------------------------- os.path ------------------------------- *)

\* index of the last occurrence of token t in s, 0 if none
LastIndexOf(s, t) ==
    IF \E i \in 1..Len(s) : s[i] = t
    THEN CHOOSE i \in 1..Len(s) : s[i] = t /\ \A j \in (i+1)..Len(s) : s[j] # t
    ELSE 0

\* os.path.join(a, b)
Join(a, b) ==
    IF a = <<>> THEN b
    ELSE IF a[Len(a)] = "/" THEN a \o b
    ELSE a \o <<"/">> \o b

\* os.path.basename(p)
Basename(p) == SubSeq(p, LastIndexOf(p, "/") + 1, Len(p))

\* os.path.dirname(p): the head, without its trailing separator
Dirname(p) == SubSeq(p, 1, LastIndexOf(p, "/") - 1)

\* os.path.splitext(name)[0]: cut at the last dot, unless only dots precede it
SplitExtRoot(name) ==
    LET d == LastIndexOf(name, ".")
    IN  IF d > 0 /\ \E i \in 1..(d - 1) : name[i] # "."
        THEN SubSeq(name, 1, d - 1)
        ELSE name

(* ----------------------------- file system ----------------------------- *)

\* the kind of entry i of the input directory
EntryKind(i) == IF i = subdir THEN "dir" ELSE "file"

\* does path p name entry i of the input directory (the file system of an
\* nt platform ignores case)
NamesEntry(p, i) ==
    NormCaseSeq(p) = NormCaseSeq(Join(args.input, listing[i]))

\* what path p refers to: "file", "dir" or "missing"
KindOf(p) ==
    IF p = args.input \/ p = Join(args.input, <<>>) THEN inputKind
    ELSE IF inputKind = "dir" /\ \E i \in 1..Len(listing) : NamesEntry(p, i)
    THEN EntryKind(CHOOSE i \in 1..Len(listing) : NamesEntry(p, i))
    ELSE "missing"

\* os.path.exists, os.path.isfile, os.path.isdir
Exists(p) == KindOf(p) # "missing"
IsFile(p) == KindOf(p) = "file"
IsDir(p) == KindOf(p) = "dir"

\* fnmatch of a file name against a pattern "*.ext": the pattern is
\* normcased, the name is normcased on nt only (there normcase folds case),
\* and glob leaves out hidden names
FnMatch(name, pat) ==
    /\ Len(name) >= 2
    /\ name[1] # "."
    /\ SubSeq(NormCaseSeq(name), Len(name) - 1, Len(name))
         = SubSeq(NormCaseSeq(pat), Len(pat) - 1, Len(pat))

\* the names from position i on that match pat, in order
RECURSIVE SelectMatching(_, _, _)
SelectMatching(names, pat, i) ==
    IF i > Len(names) THEN <<>>
    ELSE (IF FnMatch(names[i], pat) THEN <<names[i]>> ELSE <<>>)
         \o SelectMatching(names, pat, i + 1)

\* glob.glob(pattern) for a pattern dir/*.ext: the matching names of dir in
\* listing order, each joined with dir; nothing when dir is no directory
Glob(pattern) ==
    LET dir == Dirname(pattern)
        names == IF IsDir(dir) THEN listing ELSE <<>>
        hits == SelectMatching(names, Basename(pattern), 1)
    IN  [i \in 1..Len(hits) |-> Join(dir, hits[i])]

\* os.makedirs(d, exist_ok=True): the state of the output directory after
\* the call, or "raise" when it cannot be created
MakeDirs(d) ==
    IF d = <<".">> THEN "exists"
    ELSE IF outDir = "uncreatable" THEN "raise"
    ELSE "exists"

(* --------------------------- conversion unit --------------------------- *)

\* a command line that forgets the codec of wav and keeps the bitrate
FfmpegCmd_NoWav(input_path, output_path, audio_format, quality) ==
    << <<"ffmpeg">>, <<"-i">>, input_path, <<"-vn">> >>
    \o (IF audio_format \in {"mp3", "wav"}
          THEN << <<"-c:a">>, <<"libmp3lame">>, <<"-b:a">>, <<quality>> >>
        ELSE << <<"-c:a">>, <<"copy">> >>)
    \o << output_path >>

\* the ffmpeg command line of one conversion, a sequence of words
FfmpegCmd(input_path, output_path, audio_format, quality) ==
    << <<"ffmpeg">>, <<"-i">>, input_path, <<"-vn">> >>
    \o (IF audio_format = "mp3"
          THEN << <<"-c:a">>, <<"libmp3lame">>, <<"-b:a">>, <<quality>> >>
        ELSE IF audio_format = "wav"
          THEN << <<"-c:a">>, <<"pcm_s16le">> >>
        ELSE << <<"-c:a">>, <<"copy">> >>)
    \o << output_path >>

\* the guard at the top of convert_video_to_audio
InputPresent(input_path) == Exists(input_path)

\* convert_video_to_audio, given what the engine run comes to: the value
\* returned (ret), the exception that escapes (exc, "none" when it returns),
\* the directories handed to os.makedirs (mk), the engine runs (inv) and the
\* state of the output directory afterwards (dirState)
convert_video_to_audio(input_path, output_path, audio_format, quality, eng) ==
    LET parent == IF Dirname(output_path) = <<>> THEN <<".">>
                  ELSE Dirname(output_path)
        made == MakeDirs(parent)
        cmd == FfmpegCmd(input_path, output_path, audio_format, quality)
        run == [cmd |-> cmd, outcome |-> eng]
    IN  IF ~InputPresent(input_path)
          THEN [ret |-> FALSE, exc |-> "none", mk |-> <<>>, inv |-> <<>>,
                dirState |-> outDir]
        ELSE IF made = "raise"
          THEN [ret |-> FALSE, exc |-> "OSError", mk |-> <<parent>>,
                inv |-> <<>>, dirState |-> outDir]
        ELSE IF eng = "ok"
          THEN [ret |-> TRUE, exc |-> "none", mk |-> <<parent>>,
                inv |-> <<run>>, dirState |-> made]
        ELSE IF eng = "nonzero"
          THEN [ret |-> FALSE, exc |-> "none", mk |-> <<parent>>,
                inv |-> <<run>>, dirState |-> made]
        ELSE IF eng = "notfound"
          THEN [ret |-> FALSE, exc |-> "FileNotFoundError", mk |-> <<parent>>,
                inv |-> <<run>>, dirState |-> made]
        ELSE [ret |-> FALSE, exc |-> "PermissionError", mk |-> <<parent>>,
              inv |-> <<run>>, dirState |-> made]

(* -------------------------- batch orchestrator ------------------------- *)

\* the patterns batch_convert looks for, in its order
video_extensions ==
    << <<"*", ".", "mp4">>, <<"*", ".", "avi">>, <<"*", ".", "mov">>,
       <<"*", ".", "mkv">>, <<"*", ".", "wmv">>, <<"*", ".", "flv">>,
       <<"*", ".", "webm">> >>

\* the two glob calls made for one pattern: as written, then upper-cased
GlobBothCases(input_dir, ext) ==
    Glob(Join(input_dir, ext)) \o Glob(Join(input_dir, UpperSeq(ext)))

\* the list video_files built by the loop over video_extensions
RECURSIVE EnumerateVideos(_, _)
EnumerateVideos(input_dir, k) ==
    IF k > Len(video_extensions) THEN <<>>
    ELSE GlobBothCases(input_dir, video_extensions[k])
         \o EnumerateVideos(input_dir, k + 1)

\* an output name that keeps the extension of the video
OutputName_KeepExt(base_name, audio_format) ==
    base_name \o <<".", audio_format>>

\* output_name: the base name without its extension, plus "." and the format
OutputName(base_name, audio_format) ==
    SplitExtRoot(base_name) \o <<".", audio_format>>

\* output_path of one video file
OutputPath(output_dir, video_file, audio_format) ==
    Join(output_dir, OutputName(Basename(video_file), audio_format))

\* a loop that gives up at the first failed item
AfterItem_FailFast(i, n, converted) == IF converted THEN i + 1 ELSE n + 1

\* the loop position after the item at position i has been handled
AfterItem(i, n, converted) == i + 1

(* -------------------------------- main --------------------------------- *)

\* a check_ffmpeg that does not look at the exit status of the probe
check_ffmpeg_NoStatus(probe) ==
    IF probe \in {"ok", "nonzero"} THEN "True"
    ELSE IF probe = "notfound" THEN "False"
    ELSE "raise"

\* check_ffmpeg, given what the run of "ffmpeg -version" comes to: "True",
\* "False", or "raise" when the exception is not one of those it catches
check_ffmpeg(probe) ==
    IF probe = "ok" THEN "True"
    ELSE IF probe \in {"nonzero", "notfound"} THEN "False"
    ELSE "raise"

\* a main that takes a batch without any success for a failed one
BatchExitCode_NoSuccess(succ, failure) ==
    IF failure > 0 \/ succ = 0 THEN 1 ELSE 0

\* the exit status main ends with after batch_convert returned
BatchExitCode(succ, failure) == IF failure > 0 THEN 1 ELSE 0

\* the exit status main ends with after convert_video_to_audio returned
SingleExitCode(ok) == IF ~ok THEN 1 ELSE 0

\* a batch precheck that only asks whether the path exists
BatchInputValid_Exists(p) == Exists(p)

\* is path p acceptable as the input of batch mode
BatchInputValid(p) == IsDir(p)

\* is path p acceptable as the input of single-file mode
SingleInputValid(p) == IsFile(p)

(* ---------------------------- initial states --------------------------- *)

\* sequence s back to front
Reverse(s) == [i \in 1..Len(s) |-> s[Len(s) + 1 - i]]

\* the selections of at most n names, in scan order
Selections(n) ==
    UNION { { [i \in 1..k |-> ScanOrder[q[i]]] :
                q \in { f \in [1..k -> 1..Len(ScanOrder)] :
                          \A i, j \in 1..k : i < j => f[i] < f[j] } }
            : k \in 0..n }

\* the directory listings of at most n names: the order of a listing is up
\* to the file system, here scan order or its reverse
Listings(n) == Selections(n) \cup { Reverse(l) : l \in Selections(n) }

\* a directory cannot hold two names its file system takes for the same
ListingPossible(l) ==
    \A i, j \in 1..Len(l) : i # j => NormCaseSeq(l[i]) # NormCaseSeq(l[j])

\* output paths of a run on one file: inside a directory, and a bare name
SingleOutputs == { <<"out", "/", "clip", ".", "mp3">>, <<"clip", ".", "mp3">> }

FormatsOf(e) == IF e = "main" THEN CliFormats ELSE ApiFormats

\* the quality only reaches the command of format mp3: the other formats
\* run with the default
QualitiesOf(f) == IF f = "mp3" THEN Qualities ELSE {"192k"}

InitControl ==
    /\ pc = (IF entry = "main" THEN "check_ffmpeg" ELSE entry)
    /\ video_files = <<>>
    /\ idx = 0
    /\ success_count = 0
    /\ failure_count = 0
    /\ result = <<>>
    /\ success = "unset"
    /\ engine_probe = "unset"
    /\ ffmpeg_ok = "unset"
    /\ parsed = FALSE
    /\ exit_code = -1
    /\ raised = "none"
    /\ scanned = FALSE
    /\ mkdirs = <<>>
    /\ calls = <<>>
    /\ invocations = <<>>

\* a run in batch mode: main with --batch, or batch_convert called directly
InitBatch ==
    /\ entry \in {"main", "batch_convert"}
    /\ \E f \in FormatsOf(entry) : \E q \in QualitiesOf(f) :
         args = [input |-> <<"in">>, output |-> <<"out">>, format |-> f,
                 quality |-> q, batch |-> TRUE]
    /\ inputKind \in {"dir", "file", "missing"}
    /\ listing \in Listings(MaxFiles)
    /\ inputKind # "dir" => listing = <<>>
    /\ ListingPossible(listing)
    /\ subdir \in 0..Len(listing)
    /\ outDir \in OutDirStates

\* a run on one file: main without --batch, or convert_video_to_audio
\* called directly
InitSingle ==
    /\ entry \in {"main", "convert_video_to_audio"}
    /\ \E f \in FormatsOf(entry), o \in SingleOutputs : \E q \in QualitiesOf(f) :
         args = [input |-> <<"clip", ".", "mp4">>, output |-> o, format |-> f,
                 quality |-> q, batch |-> FALSE]
    /\ inputKind \in {"dir", "file", "missing"}
    /\ listing = <<>>
    /\ subdir = 0
    /\ outDir \in OutDirStates
    /\ Dirname(args.output) = <<>> => outDir = "exists"

Init ==
    /\ platform \in Platforms
    /\ InitBatch \/ InitSingle
    /\ InitControl

(* ------------------------------- actions ------------------------------- *)

\* sys.exit(code)
Exit(code) ==
    /\ pc' = "exited"
    /\ exit_code' = code
    /\ raised' = raised

\* an exception nobody catches: under main the interpreter prints the
\* traceback and the process ends with status 1; a direct caller gets it
Raise(exc) ==
    /\ raised' = exc
    /\ pc' = (IF entry = "main" THEN "exited" ELSE "raised")
    /\ exit_code' = (IF entry = "main" THEN 1 ELSE exit_code)

\* main: if not check_ffmpeg(): sys.exit(1)
CheckFfmpeg ==
    /\ pc = "check_ffmpeg"
    /\ \E probe \in EngineOutcomes :
         /\ engine_probe' = probe
         /\ ffmpeg_ok' = check_ffmpeg(probe)
         /\ CASE check_ffmpeg(probe) = "True" ->
                   pc' = "parse_arguments" /\ UNCHANGED <<exit_code, raised>>
              [] check_ffmpeg(probe) = "False" -> Exit(1)
              [] OTHER -> Raise("PermissionError")
    /\ UNCHANGED <<platform, entry, args, inputKind, listing, subdir, outDir,
                   video_files, idx, success_count, failure_count, result,
                   success, parsed, scanned, mkdirs, calls, invocations>>

\* main: args = parse_arguments(); argparse ends the process with status 2
\* on a command line it rejects
ParseArguments ==
    /\ pc = "parse_arguments"
    /\ \E accepted \in BOOLEAN :
         /\ parsed' = accepted
         /\ IF accepted
            THEN pc' = "dispatch" /\ UNCHANGED <<exit_code, raised>>
            ELSE Exit(2)
    /\ UNCHANGED <<platform, entry, args, inputKind, listing, subdir, outDir,
                   video_files, idx, success_count, failure_count, result,
                   success, engine_probe, ffmpeg_ok, scanned, mkdirs, calls,
                   invocations>>

\* main, batch mode: the isdir check before batch_convert is called
MainBatch ==
    /\ pc = "dispatch"
    /\ args.batch
    /\ IF BatchInputValid(args.input)
       THEN pc' = "batch_convert" /\ UNCHANGED <<exit_code, raised>>
       ELSE Exit(1)
    /\ UNCHANGED <<platform, entry, args, inputKind, listing, subdir, outDir,
                   video_files, idx, success_count, failure_count, result,
                   success, engine_probe, ffmpeg_ok, parsed, scanned, mkdirs,
                   calls, invocations>>

\* main, single-file mode: the isfile check before the conversion
MainSingle ==
    /\ pc = "dispatch"
    /\ ~args.batch
    /\ IF SingleInputValid(args.input)
       THEN pc' = "convert_video_to_audio" /\ UNCHANGED <<exit_code, raised>>
       ELSE Exit(1)
    /\ UNCHANGED <<platform, entry, args, inputKind, listing, subdir, outDir,
                   video_files, idx, success_count, failure_count, result,
                   success, engine_probe, ffmpeg_ok, parsed, scanned, mkdirs,
                   calls, invocations>>

\* batch_convert up to its loop: the output directory is made, the input
\* directory is scanned, and an empty list returns (0, 0) at once
BatchSetup ==
    /\ pc = "batch_convert"
    /\ LET input_dir == Join(args.input, <<>>)
           output_dir == Join(args.output, <<>>)
           found == EnumerateVideos(input_dir, 1)
       IN  /\ mkdirs' = Append(mkdirs, output_dir)
           /\ IF MakeDirs(output_dir) = "raise"
              THEN /\ Raise("OSError")
                   /\ UNCHANGED <<outDir, video_files, idx, result, scanned>>
              ELSE /\ outDir' = MakeDirs(output_dir)
                   /\ scanned' = TRUE
                   /\ video_files' = found
                   /\ UNCHANGED <<exit_code, raised>>
                   /\ IF found = <<>>
                      THEN /\ result' = <<0, 0>>
                           /\ pc' = "batch_returned"
                           /\ idx' = idx
                      ELSE /\ pc' = "batch_loop"
                           /\ idx' = 1
                           /\ result' = result
    /\ UNCHANGED <<platform, entry, args, inputKind, listing, subdir,
                   success_count, failure_count, success, engine_probe,
                   ffmpeg_ok, parsed, calls, invocations>>

\* one round of the loop of batch_convert: the output path is derived and
\* the file is handed to convert_video_to_audio, whose result is counted
BatchItem ==
    /\ pc = "batch_loop"
    /\ idx <= Len(video_files)
    /\ LET video_file == video_files[idx]
           output_path == OutputPath(Join(args.output, <<>>), video_file,
                                     args.format)
       IN  \E eng \in EngineOutcomesFor(KindOf(video_file)) :
             LET r == convert_video_to_audio(video_file, output_path,
                                             args.format, args.quality, eng)
             IN  /\ calls' = Append(calls, [input |-> video_file,
                                            output |-> output_path])
                 /\ mkdirs' = mkdirs \o r.mk
                 /\ invocations' = invocations \o r.inv
                 /\ outDir' = r.dirState
                 /\ IF r.exc # "none"
                    THEN /\ Raise(r.exc)
                         /\ UNCHANGED <<idx, success_count, failure_count>>
                    ELSE /\ success_count' =
                              (IF r.ret THEN success_count + 1
                               ELSE success_count)
                         /\ failure_count' =
                              (IF r.ret THEN failure_count
                               ELSE failure_count + 1)
                         /\ idx' = AfterItem(idx, Len(video_files), r.ret)
                         /\ UNCHANGED <<pc, exit_code, raised>>
    /\ UNCHANGED <<platform, entry, args, inputKind, listing, subdir,
                   video_files, result, success, engine_probe, ffmpeg_ok,
                   parsed, scanned>>

\* batch_convert after its loop: return success_count, failure_count
BatchReturn ==
    /\ pc = "batch_loop"
    /\ idx > Len(video_files)
    /\ result' = <<success_count, failure_count>>
    /\ pc' = "batch_returned"
    /\ UNCHANGED <<platform, entry, args, inputKind, listing, subdir, outDir,
                   video_files, idx, success_count, failure_count, success,
                   engine_probe, ffmpeg_ok, parsed, exit_code, raised,
                   scanned, mkdirs, calls, invocations>>

\* main after batch_convert: sys.exit(1) if failure > 0, else the end of
\* main, status 0
MainAfterBatch ==
    /\ pc = "batch_returned"
    /\ entry = "main"
    /\ Exit(BatchExitCode(result[1], result[2]))
    /\ UNCHANGED <<platform, entry, args, inputKind, listing, subdir, outDir,
                   video_files, idx, success_count, failure_count, result,
                   success, engine_probe, ffmpeg_ok, parsed, scanned, mkdirs,
                   calls, invocations>>

\* one call of convert_video_to_audio on args.input: by main in single-file
\* mode, or by a direct caller
ConvertOne ==
    /\ pc = "convert_video_to_audio"
    /\ \E eng \in EngineOutcomesFor(KindOf(args.input)) :
         LET r == convert_video_to_audio(args.input, args.output,
                                         args.format, args.quality, eng)
         IN  /\ calls' = Append(calls, [input |-> args.input,
                                        output |-> args.output])
             /\ mkdirs' = mkdirs \o r.mk
             /\ invocations' = invocations \o r.inv
             /\ outDir' = r.dirState
             /\ IF r.exc # "none"
                THEN Raise(r.exc) /\ success' = success
                ELSE /\ success' = (IF r.ret THEN "True" ELSE "False")
                     /\ pc' = "convert_returned"
                     /\ UNCHANGED <<exit_code, raised>>
    /\ UNCHANGED <<platform, entry, args, inputKind, listing, subdir,
                   video_files, idx, success_count, failure_count, result,
                   engine_probe, ffmpeg_ok, parsed, scanned>>

\* main after the single conversion: sys.exit(1) if not success, else the
\* end of main, status 0
MainAfterSingle ==
    /\ pc = "convert_returned"
    /\ entry = "main"
    /\ Exit(SingleExitCode(success = "True"))
    /\ UNCHANGED <<platform, entry, args, inputKind, listing, subdir, outDir,
                   video_files, idx, success_count, failure_count, result,
                   success, engine_probe, ffmpeg_ok, parsed, scanned, mkdirs,
                   calls, invocations>>

Next ==
    \/ CheckFfmpeg
    \/ ParseArguments
    \/ MainBatch
    \/ MainSingle
    \/ BatchSetup
    \/ BatchItem
    \/ BatchReturn
    \/ MainAfterBatch
    \/ ConvertOne
    \/ MainAfterSingle

Spec == Init /\ [][Next]_vars

TypeOK ==
    /\ pc \in {"check_ffmpeg", "parse_arguments", "dispatch", "batch_convert",
               "batch_loop", "batch_returned", "convert_video_to_audio",
               "convert_returned", "exited", "raised"}
    /\ exit_code \in {-1, 0, 1, 2}
    /\ success_count \in Nat /\ failure_count \in Nat

(* ------------------------------ properties ----------------------------- *)

\* positions of the engine runs that ended with a non-zero exit status
FailedRuns == { k \in 1..Len(invocations) : invocations[k].outcome = "nonzero" }

\* the extensions batch_convert looks for
VideoExtNames == { video_extensions[k][3] : k \in 1..Len(video_extensions) }

\* entry i of the input directory is a regular file whose extension is a
\* video extension in some mix of upper and lower case
IsVideoFile(i) ==
    /\ EntryKind(i) = "file"
    /\ Len(listing[i]) >= 3
    /\ listing[i][Len(listing[i]) - 1] = "."
    /\ Lower(listing[i][Len(listing[i])]) \in VideoExtNames

\* C1: batch_convert is best-effort. When it returns, every enumerated item
\* has been handed to convert_video_to_audio, in enumeration order, and with
\* F the set of items on which the engine exited non-zero the result is
\* (n - |F|, |F|): no failure stopped the items after it.
C1_BestEffort ==
    pc = "batch_returned" =>
        LET n == Len(video_files)
        IN  /\ Len(calls) = n
            /\ \A k \in 1..n : calls[k].input = video_files[k]
            /\ result = <<n - Cardinality(FailedRuns), Cardinality(FailedRuns)>>
            /\ result[1] + result[2] = n

\* a batch of three items returned after the engine failed on the second only
C1_Witness ==
    /\ pc = "batch_returned"
    /\ Len(video_files) = 3
    /\ FailedRuns = {2}
    /\ result = <<2, 1>>

\* the run did all it was asked to: the engine was there, the input fitted
\* the mode, and every item found was converted by an engine run that
\* exited with status 0
RunFullySucceeded ==
    /\ engine_probe = "ok"
    /\ parsed
    /\ raised = "none"
    /\ \A k \in 1..Len(invocations) : invocations[k].outcome = "ok"
    /\ IF args.batch
       THEN /\ inputKind = "dir"
            /\ scanned
            /\ Len(invocations) = Len(video_files)
       ELSE /\ inputKind = "file"
            /\ Len(invocations) = 1

\* C2: the exit status of main is 0 exactly when the run fully succeeded,
\* and it is 1 when the engine is unavailable, when the input path does not
\* fit the mode, and when an item of a batch failed.
C2_ExitCode ==
    (entry = "main" /\ pc = "exited") =>
        /\ exit_code = 0 <=> RunFullySucceeded
        /\ engine_probe # "ok" => exit_code = 1
        /\ (parsed /\ args.batch /\ inputKind # "dir") => exit_code = 1
        /\ (parsed /\ ~args.batch /\ inputKind # "file") => exit_code = 1
        /\ (result # <<>> /\ result[2] > 0) => exit_code = 1

\* main ended a batch in which one item was converted and another failed
C2_Witness ==
    /\ entry = "main"
    /\ pc = "exited"
    /\ exit_code = 1
    /\ result # <<>>
    /\ result[1] > 0
    /\ result[2] > 0

\* C3: batch enumeration matches the video extensions whatever their case:
\* once the directory is scanned, every regular file in it with a video
\* extension in any mix of case is a work item, and a directory holding
\* a.MP4, b.mp4 and c.Mp4 gives exactly 3 work items.
C3_CaseInsensitive ==
    scanned =>
        /\ \A i \in 1..Len(listing) :
             IsVideoFile(i) =>
                 \E k \in 1..Len(video_files) :
                     video_files[k] = Join(args.input, listing[i])
        /\ ( /\ Len(listing) = 3
             /\ subdir = 0
             /\ { listing[i] : i \in 1..3 }
                  = { <<"a", ".", "MP4">>, <<"b", ".", "mp4">>,
                      <<"c", ".", "Mp4">> } )
           => Len(video_files) = 3

\* C4: the list of work items never holds the same path twice.
C4_NoDuplicates ==
    \A i, j \in 1..Len(video_files) :
        i # j => video_files[i] # video_files[j]

\* C5: convert_video_to_audio always returns: once it has been called, no
\* exception has escaped it, whatever the engine run and the creation of
\* the output directory came to.
C5_NeverRaises ==
    calls # <<>> => raised = "none"

\* C6: when the engine probe fails, main stops before anything else: the
\* directory is not scanned, no directory is made, no conversion is called
\* and the engine is not run.
C6_FatalAtStartup ==
    (entry = "main" /\ engine_probe \notin {"unset", "ok"}) =>
        /\ pc = "exited"
        /\ ~scanned
        /\ mkdirs = <<>>
        /\ calls = <<>>
        /\ invocations = <<>>
        /\ video_files = <<>>

\* main ended on a failed probe although the batch had files to convert and
\* an output directory to make
C6_Witness ==
    /\ entry = "main"
    /\ engine_probe \in {"nonzero", "notfound"}
    /\ pc = "exited"
    /\ exit_code = 1
    /\ args.batch
    /\ inputKind = "dir"
    /\ Len(listing) >= 2
    /\ outDir = "creatable"

\* word w occurs in command c
HasWord(c, w) == \E j \in 1..Len(c) : c[j] = w

\* words w1, w2 occur next to each other in command c
HasPair(c, w1, w2) == \E j \in 1..(Len(c) - 1) : c[j] = w1 /\ c[j + 1] = w2

\* C7: the command of every engine run reads the input of its call, holds
\* -vn and ends with the output path of its call; mp3 selects libmp3lame
\* with the bitrate set to quality, wav selects pcm_s16le without a bitrate,
\* every other format selects copy without a bitrate.
C7_CommandMapping ==
    \A k \in 1..Len(invocations) :
        LET c == invocations[k].cmd
        IN  /\ c[1] = <<"ffmpeg">>
            /\ HasPair(c, <<"-i">>, calls[k].input)
            /\ HasWord(c, <<"-vn">>)
            /\ c[Len(c)] = calls[k].output
            /\ args.format = "mp3" =>
                   /\ HasPair(c, <<"-c:a">>, <<"libmp3lame">>)
                   /\ HasPair(c, <<"-b:a">>, <<args.quality>>)
            /\ args.format = "wav" =>
                   /\ HasPair(c, <<"-c:a">>, <<"pcm_s16le">>)
                   /\ ~HasWord(c, <<"-b:a">>)
            /\ args.format \notin {"mp3", "wav"} =>
                   /\ HasPair(c, <<"-c:a">>, <<"copy">>)
                   /\ ~HasWord(c, <<"-b:a">>)

\* a direct call with a format that is neither mp3 nor wav ran the engine
C7_Witness ==
    /\ args.format = "flac"
    /\ Len(invocations) >= 1
    /\ pc \in {"convert_returned", "batch_returned"}

\* C8: a call of convert_video_to_audio whose input is no existing regular
\* file never runs the engine on it, and a direct call of that kind makes
\* no directory and returns False.
C8_InputMissing ==
    \A k \in 1..Len(calls) :
        KindOf(calls[k].input) # "file" =>
            /\ \A j \in 1..Len(invocations) :
                 ~HasPair(invocations[j].cmd, <<"-i">>, calls[k].input)
            /\ entry = "convert_video_to_audio" =>
                 /\ mkdirs = <<>>
                 /\ raised = "none" => success = "False"

\* no entry of the input directory has a video extension, in any case
NoVideoNames ==
    \A i \in 1..Len(listing) :
        Lower(listing[i][Len(listing[i])]) \notin VideoExtNames

StemOf(k) == SplitExtRoot(Basename(calls[k].input))

\* C10 as stated: within one batch, two different work items never get the
\* same output path.
C10_DistinctOutputs ==
    args.batch =>
        \A i, j \in 1..Len(calls) :
            calls[i].input # calls[j].input => calls[i].output # calls[j].output

\* C10 as amended: the output path of a work item is output_dir joined with
\* the base name without its extension, ".", and the format; two work items
\* of a batch get the same output path exactly when their base names without
\* extension are the same.
C10_SameStemSameOutput ==
    args.batch =>
        /\ \A k \in 1..Len(calls) :
             calls[k].output
               = <<"out", "/">> \o StemOf(k) \o <<".", args.format>>
        /\ \A i, j \in 1..Len(calls) :
             calls[i].output = calls[j].output <=> StemOf(i) = StemOf(j)

\* a batch returned after two different videos were converted to one output
C10_Witness ==
    /\ pc = "batch_returned"
    /\ \E i, j \in 1..Len(calls) :
         /\ calls[i].input # calls[j].input
         /\ calls[i].output = calls[j].output

====
